---- MODULE Spec2Model ----
(***************************************************************************)
(* Model of the sitemap import worker (src/workers/import-worker.ts), the  *)
(* IndexedDB store it writes to (src/lib/import-types.ts, the idb part)    *)
(* and the server routes it calls (src/app/api/sitemap/route.ts and the    *)
(* /api/sitemap/index and /api/sitemap/urls routes in src/unnamed/part_003)*)
(* and the sitemap-cache library the page calls on the main thread        *)
(* (src/workers/import-worker.ts:195-262).                                 *)
(*                                                                         *)
(* The worker is single threaded: every await is a suspension point, and   *)
(* one action of the model is one handler or one continuation, run to its  *)
(* next suspension point.  Locations (loc strings) and child sitemap       *)
(* locations are interned as natural numbers; root urls are 1, 2.          *)
(***************************************************************************)
EXTENDS Integers, Sequences, FiniteSets, TLC

VARIABLES
    cancelled,   \* import-worker.ts:32   the module-level flag
    aborters,    \* import-worker.ts:33   the registered AbortControllers
    nruns,       \* number of start messages handled so far
    limit,       \* number of start messages the page sends at most
    url,         \* run -> payload.url
    opts,        \* run -> [groupSize, concurrency] after merging DEFAULTS
    rpc,         \* run -> the await at which run() is suspended
    groups,      \* run -> chunk(sitemaps, groupSize)
    next,        \* run -> the shared cursor `next`
    progress,    \* run -> the ImportProgress object
    total,       \* run -> the local `total` of the finalization
    wk,          \* run -> pool worker -> its position
    pending,     \* run -> records a direct putPagesBulk has still to write
    pages,       \* the "pages" object store (keyPath loc)
    sources,     \* the "sources" object store (keyPath url)
    upstream,    \* root url -> the document the site serves for it
    isImporting, \* page.tsx:93  the page's flag that disables the Import button
    log,         \* run -> the messages it posted, with the cancels it saw
    returned,    \* run -> locs the collaborators returned to it (history)
    committed,   \* run -> locs of the groups whose bulk write finished
    overlap,     \* run -> another run was alive during its lifetime
    keysAtDone,  \* run -> the keys of the pages store when it completed
    now,         \* Date.now()
    calls,       \* slot -> a call of the sitemap-cache library and its position
    ncalls,      \* number of library calls made so far
    marker,      \* localStorage "idb:paths-backfilled:v3" is "true"
    scans,       \* the backfill scans in progress, how many have committed, whether one
                 \* aborted, and whether a call rejected to its caller
    search,      \* the search call of the page: its arguments, stage and result
    bulk         \* a call of putPagesBulk with a chunk size: its arguments and position

vars == <<cancelled, aborters, nruns, limit, url, opts, rpc, groups, next, progress,
          total, wk, pending, pages, sources, upstream, isImporting, log,
          returned, committed, overlap, keysAtDone, now, calls, ncalls, marker,
          scans, search, bulk>>

\* What the worker and the page own, apart from the two object stores.
workerVars == <<cancelled, aborters, nruns, limit, url, opts, rpc, groups, next,
                progress, total, wk, pending, upstream, isImporting, log,
                returned, committed, overlap, keysAtDone>>

\* What the library calls made on the main thread own.
libVars == <<now, calls, ncalls, marker, scans, search, bulk>>

(***************************************************************************)
(* Bounds of the model and constants of the program.                       *)
(***************************************************************************)
MaxRuns == 1
MaxUrlsetLocs == 501
UrlCap == 500
ChunkSize == 1000
SamplePerBatch == 50
DefaultTtl == 21600000
MaxTicks == 1
MaxChildren == 7
MaxGroupSize == 8

Runs == 1 .. (MaxRuns + 1)
Workers == {1, 2, 3}
Children == {1, 2, 3}
Roots == {1, 2}
Options ==
    {[groupSize |-> 1, concurrency |-> 2, ttlMs |-> DefaultTtl],
     [groupSize |-> 3, concurrency |-> 2, ttlMs |-> DefaultTtl]}
\* ttlMs is a number the caller chooses freely.
TtlValues == {0, DefaultTtl}
Flaky == {1}

Min(a, b) == IF a < b THEN a ELSE b
Range(s) == {s[i] : i \in 1 .. Len(s)}
Keys(store) == {p.loc : p \in store}

(***************************************************************************)
(* The upstream site.  Root 1 is a sitemap index of three children, two of *)
(* which list a common location; root 2 is a plain urlset that shares a    *)
(* location with a child of root 1.                                        *)
(***************************************************************************)
ChildDoc(c) ==
    IF c = 1 THEN <<1, 2>> ELSE IF c = 2 THEN <<2, 3>> ELSE <<3>>

World ==
    [u \in Roots |->
        IF u = 1 THEN [type |-> "index", sitemaps |-> <<1, 2, 3>>, urls |-> <<>>]
                 ELSE [type |-> "urlset", sitemaps |-> <<>>, urls |-> <<3, 4, 3>>]]

\* A sitemap index of n children at either root.
IndexWorld(n) ==
    [u \in Roots |->
        [type |-> "index", sitemaps |-> [i \in 1 .. n |-> i], urls |-> <<>>]]

UrlsetWorld(n) ==
    [u \in Roots |->
        [type |-> "urlset", sitemaps |-> <<>>, urls |-> [i \in 1 .. n |-> i]]]

(***************************************************************************)
(* Pure functions of the program.                                          *)
(***************************************************************************)
\* chunk(arr, size): the loop `for (let i = 0; i < arr.length; i += size)
\* out.push(arr.slice(i, i + size))`.
RECURSIVE chunkLoop(_, _, _, _)
chunkLoop(arr, size, i, out) ==
    IF i < Len(arr)
    THEN chunkLoop(arr, size, i + size,
                   Append(out, SubSeq(arr, i + 1, Min(i + size, Len(arr)))))
    ELSE out

chunkFullOnly(arr, size) ==
    [k \in 1 .. (Len(arr) \div size) |-> SubSeq(arr, (k - 1) * size + 1, k * size)]

chunk(arr, size) == chunkLoop(arr, size, 0, <<>>)

\* The `seen` loop of the routes: the entries whose loc did not occur before,
\* in document order (evaluated by halves to keep the recursion shallow).
RECURSIVE Dedupe(_, _, _)
Dedupe(entries, lo, hi) ==
    IF lo > hi THEN <<>>
    ELSE IF lo = hi THEN <<entries[lo]>>
    ELSE LET mid == (lo + hi) \div 2
             left == Dedupe(entries, lo, mid)
             seen == Range(left)
         IN  left \o SelectSeq(Dedupe(entries, mid + 1, hi), LAMBDA e : e \notin seen)

\* With `if (urls.length >= cap) break` in the loop (cap < 0: no break).
DedupeCap(entries, cap) ==
    LET all == Dedupe(entries, 1, Len(entries))
    IN  IF cap >= 0 /\ Len(all) > cap THEN SubSeq(all, 1, cap) ELSE all

\* Concatenation of the documents of the children of `group` that are in `ok`.
RECURSIVE Merge(_, _)
Merge(group, ok) ==
    IF group = <<>> THEN <<>>
    ELSE (IF Head(group) \in ok THEN ChildDoc(Head(group)) ELSE <<>>)
         \o Merge(Tail(group), ok)

\* POST /api/sitemap/urls: the children that could be fetched, merged, deduped.
batchUrls(group, ok) == DedupeCap(Merge(group, ok), -1)

\* POST /api/sitemap for a urlset document: dedupe by loc, cap at 500.
directUrlsUncapped(doc) == DedupeCap(doc.urls, -1)

directUrls(doc) == DedupeCap(doc.urls, UrlCap)

\* urls.map(u => ({loc: u.loc, sourceUrl}))
toRecords(urls, sourceUrl) ==
    [i \in 1 .. Len(urls) |-> [loc |-> urls[i], sourceUrl |-> sourceUrl]]

\* The text of an interned loc.  url: `new URL(loc)` parses, and text is its
\* pathname; otherwise text is the loc string itself.  A string is a sequence
\* of characters, of " ", "-", "/", "A", "B", "P", "a", "b", "p", "z".  The
\* locs 1001 .. 1006 are the pages of a site that the searches are tried on.
SearchLocs == 1001 .. 1006

SearchText(l) ==
    IF l = 1001 THEN <<"/", "p", "a">>
    ELSE IF l = 1002 THEN <<"/", "p", "a", "/", "b">>
    ELSE IF l = 1003 THEN <<"/", "a">>
    ELSE IF l = 1004 THEN <<"/", "a", "-", "p">>
    ELSE IF l = 1005 THEN <<"/", "z", "p">>
    ELSE <<"/", "P", "a">>

\* The locs 2001 .. 2000 + MaxFillers are the pages of a large site: their
\* paths are "/" and five characters of "-", "/", "a", "b", in the order of
\* the locs, so that none contains "p" or "z" and all sort before "/p".
MaxFillers == 800
FillerLocs == 2001 .. (2000 + MaxFillers)
FillerChars == <<"-", "/", "a", "b">>

FillerText(l) ==
    LET k == l - 2001
    IN  <<"/", FillerChars[((k \div 256) % 4) + 1], FillerChars[((k \div 64) % 4) + 1],
          FillerChars[((k \div 16) % 4) + 1], FillerChars[((k \div 4) % 4) + 1],
          FillerChars[(k % 4) + 1]>>

LocForm(l) ==
    IF l \in SearchLocs THEN [url |-> TRUE, text |-> SearchText(l)]
    ELSE IF l \in FillerLocs THEN [url |-> TRUE, text |-> FillerText(l)]
    ELSE IF l % 4 = 1 THEN [url |-> TRUE, text |-> <<"/", "A">>]
    ELSE IF l % 4 = 2 THEN [url |-> TRUE, text |-> <<"/", "a", "B">>]
    ELSE IF l % 4 = 3 THEN [url |-> TRUE, text |-> <<>>]
    ELSE [url |-> FALSE, text |-> <<"B", "a">>]

\* pathFromLoc: u.pathname || "/", or the loc with a leading slash ensured.
pathFromLoc(l) ==
    LET f == LocForm(l)
    IN  IF f.url THEN (IF f.text = <<>> THEN <<"/">> ELSE f.text)
        ELSE IF f.text # <<>> /\ f.text[1] = "/" THEN f.text
        ELSE <<"/">> \o f.text

LowerChar(c) ==
    IF c = "A" THEN "a" ELSE IF c = "B" THEN "b" ELSE IF c = "P" THEN "p" ELSE c

\* String.prototype.toLowerCase
toLowerCase(str) == [i \in 1 .. Len(str) |-> LowerChar(str[i])]

\* { ...r, sourceUrl, path, path_lc }: the three fields override the caller's.
stampTrusting(r, sourceUrl) ==
    [loc |-> r.loc,
     sourceUrl |-> IF "sourceUrl" \in DOMAIN r THEN r.sourceUrl ELSE sourceUrl,
     path |-> IF "path" \in DOMAIN r THEN r.path ELSE pathFromLoc(r.loc),
     path_lc |-> IF "path_lc" \in DOMAIN r THEN r.path_lc
                 ELSE toLowerCase(pathFromLoc(r.loc))]

stamp(r, sourceUrl) ==
    [loc |-> r.loc,
     sourceUrl |-> sourceUrl,
     path |-> pathFromLoc(r.loc),
     path_lc |-> toLowerCase(pathFromLoc(r.loc))]

\* store.put of every record of a chunk: a record replaces the one with its key.
putChunkKeepingOld(store, sourceUrl, recs) ==
    store \cup {stamp(recs[i], sourceUrl) : i \in 1 .. Len(recs)}

putChunkClearing(store, sourceUrl, recs) ==
    {stamp(recs[i], sourceUrl) : i \in 1 .. Len(recs)}

putChunk(store, sourceUrl, recs) ==
    {p \in store : \A i \in 1 .. Len(recs) : recs[i].loc # p.loc}
        \cup {stamp(recs[i], sourceUrl) : i \in 1 .. Len(recs)}

\* index.count(IDBKeyRange.only(sourceUrl)) on by_source.
countBySource(store, sourceUrl) ==
    Cardinality({p \in store : p.sourceUrl = sourceUrl})

\* tx.objectStore("sources").put(meta): whole-record replace under meta.url.
upsertSourceOnly(store, meta) == [u \in {meta.url} |-> meta]

upsertSource(store, meta) ==
    [u \in DOMAIN store \cup {meta.url} |-> IF u = meta.url THEN meta ELSE store[u]]

\* { url, lastFetched: Date.now(), expiresAt: Date.now() + ttlMs, total }
SourceMeta(u, t, ttlMs, n) ==
    [url |-> u, lastFetched |-> t, expiresAt |-> t + ttlMs, total |-> n]

\* progress.urlsImported += records.length; progress.processedSitemaps += group.length
advanceAssign(p, nrecords, ngroup) ==
    [p EXCEPT !.urlsImported = nrecords, !.processedSitemaps = ngroup]

advance(p, nrecords, ngroup) ==
    [p EXCEPT !.urlsImported = @ + nrecords, !.processedSitemaps = @ + ngroup]

\* Math.min(concurrency, groups.length)
poolSizeUnbounded(concurrency, ngroups) == ngroups

poolSize(concurrency, ngroups) == Min(concurrency, ngroups)

(***************************************************************************)
(* Messages posted to the main thread, recorded per run, and what the      *)
(* page's onmessage handler does to isImporting when it receives them.     *)
(* An event is [type, a, b]: progress carries processedSitemaps and        *)
(* urlsImported, batch the sample size, complete the total; of an error, a *)
(* tells that the rejection came from an abort and b that it came out of   *)
(* analyze.  A "cancel" entry marks where the run saw a cancel.            *)
(***************************************************************************)
Ev(type, a, b) == [type |-> type, a |-> a, b |-> b]

RECURSIVE UiAfter(_, _)
UiAfter(flag, evs) ==
    IF evs = <<>> THEN flag
    ELSE UiAfter(IF Head(evs).type = "start" THEN TRUE
                 ELSE IF Head(evs).type \in {"complete", "error"} THEN FALSE
                 ELSE flag,
                 Tail(evs))

Post(r, evs) ==
    /\ log' = [log EXCEPT ![r] = @ \o evs]
    /\ isImporting' = UiAfter(isImporting, evs)

Worker(st, idx, recs, n) == [st |-> st, idx |-> idx, recs |-> recs, n |-> n]
NoWorker == Worker("exit", 0, <<>>, 0)
Busy(r) == {w \in DOMAIN wk[r] : wk[r][w].st \in {"fetch", "write"}}
Active(r) == rpc[r] \notin {"idle", "done"} \/ Busy(r) # {}
Has(r, type) == \E i \in 1 .. Len(log[r]) : log[r][i].type = type

\* At most two calls of the sitemap-cache library are in progress at a time.
Slots == {1, 2}
NoMeta == SourceMeta(0, 0, 0, 0)
NoResult == [sample |-> <<>>, total |-> 0, meta |-> NoMeta]

\* A call of forceRefresh or refreshIfExpired: its arguments, the await it is
\* suspended at, the locals of importAndCache, and what came back to the page.
Call(kind, u, ttlMs, pc) ==
    [kind |-> kind, url |-> u, ttlMs |-> ttlMs, pc |-> pc, recs |-> <<>>,
     total |-> 0, meta |-> NoMeta, ret |-> "pending", updated |-> 0,
     result |-> NoResult, wrote |-> FALSE, failed |-> FALSE, due |-> FALSE]

NoCall == Call("none", 0, 0, "idle")

\* A call of searchByPathPrefixLC or searchFuzzy: what it was called with,
\* the await it is suspended at, the prefix results and what it returned.
Search(fn, raw, lim, pc, prefix, out) ==
    [fn |-> fn, raw |-> raw, limit |-> lim, pc |-> pc, prefix |-> prefix, out |-> out]
NoSearch == Search("none", <<>>, 0, "idle", <<>>, <<>>)

\* putPagesBulk(sourceUrl, records, chunkSize): i is the loop index, pc is
\* "tx" while the transaction of the chunk at i is open.
Bulk(sourceUrl, records, chunkSize, i, pc) ==
    [sourceUrl |-> sourceUrl, records |-> records, chunkSize |-> chunkSize, i |-> i,
     pc |-> pc]
NoBulk == Bulk(0, <<>>, 1, 0, "idle")

\* The state when the worker and the page have loaded, with the pages store
\* as earlier sessions left it.
Load(n, world, store) ==
    /\ cancelled = FALSE
    /\ aborters = {}
    /\ nruns = 0
    /\ limit = n
    /\ url = [r \in Runs |-> 0]
    /\ opts = [r \in Runs |-> [groupSize |-> 0, concurrency |-> 0, ttlMs |-> 0]]
    /\ rpc = [r \in Runs |-> "idle"]
    /\ groups = [r \in Runs |-> <<>>]
    /\ next = [r \in Runs |-> 0]
    /\ progress = [r \in Runs |->
                      [totalSitemaps |-> 0, processedSitemaps |-> 0, urlsImported |-> 0]]
    /\ total = [r \in Runs |-> 0]
    /\ wk = [r \in Runs |-> <<>>]
    /\ pending = [r \in Runs |-> <<>>]
    /\ pages = store
    /\ sources = <<>>
    /\ upstream = world
    /\ isImporting = FALSE
    /\ log = [r \in Runs |-> <<>>]
    /\ returned = [r \in Runs |-> {}]
    /\ committed = [r \in Runs |-> {}]
    /\ overlap = [r \in Runs |-> FALSE]
    /\ keysAtDone = [r \in Runs |-> {}]
    /\ now = 0
    /\ calls = [c \in Slots |-> NoCall]
    /\ ncalls = 0
    /\ marker = FALSE
    /\ scans = [running |-> 0, committed |-> 0, aborted |-> FALSE, rejected |-> FALSE]
    /\ search = NoSearch
    /\ bulk = NoBulk

Start(n, world) == Load(n, world, {})

Init == Start(MaxRuns, World)

(***************************************************************************)
(* startImportWithWorker of the page and self.onmessage "start" of the     *)
(* worker: run(payload) up to its first await, the analysis fetch.  The    *)
(* Import button is disabled while isImporting.                            *)
(***************************************************************************)
OnStart(u, o) ==
    /\ nruns < limit
    /\ ~isImporting
    /\ LET r == nruns + 1
           alive == {q \in Runs : Active(q)}
       IN  /\ nruns' = r
           /\ isImporting' = TRUE
           /\ cancelled' = FALSE
           /\ url' = [url EXCEPT ![r] = u]
           /\ opts' = [opts EXCEPT ![r] = o]
           /\ aborters' = aborters \cup {<<r, 0>>}
           /\ rpc' = [rpc EXCEPT ![r] = "analyze"]
           /\ overlap' = [q \in Runs |->
                             IF q \in alive \/ (q = r /\ alive # {}) THEN TRUE
                             ELSE overlap[q]]
    /\ UNCHANGED <<libVars, limit, groups, next, progress, total, wk, pending, pages,
                   sources, upstream, log, returned, committed, keysAtDone>>

(***************************************************************************)
(* cancelImport of the page and self.onmessage "cancel" of the worker.     *)
(* abort() rejects every fetch in flight; the rejections run as microtasks *)
(* right after the handler, before any other message or completion:        *)
(* analyze and processUrlsetDirect throw into the catch of run, a pool     *)
(* worker in its batch fetch rejects, and the first rejection of a pool    *)
(* rejects Promise.all.                                                    *)
(***************************************************************************)
Finalizing == {"count", "upsert", "directCount", "directUpsert"}
Fetching(r) == {w \in DOMAIN wk[r] : wk[r][w].st = "fetch"}

Thrown(r) ==
    \/ rpc[r] \in {"analyze", "direct"}
    \/ rpc[r] = "pool" /\ Fetching(r) # {}

CancelEffect(keep) ==
    /\ nruns > 0
    /\ cancelled' = TRUE
    /\ isImporting' = FALSE
    /\ aborters' = {}
    /\ wk' = [r \in Runs |->
                 [w \in DOMAIN wk[r] |->
                     IF wk[r][w].st = "fetch"
                     THEN Worker("failed", wk[r][w].idx, <<>>, 0)
                     ELSE wk[r][w]]]
    /\ rpc' = [r \in Runs |-> IF Thrown(r) THEN "done" ELSE rpc[r]]
    /\ log' = [r \in Runs |->
                  log[r]
                  \o (IF rpc[r] \in {"idle", "done"} \/ Has(r, "cancel") THEN <<>>
                      ELSE <<Ev("cancel", IF rpc[r] \in Finalizing THEN 1 ELSE 0, 0)>>)
                  \o (IF Thrown(r)
                      THEN <<Ev("error", 1, IF rpc[r] = "analyze" THEN 1 ELSE 0)>>
                      ELSE <<>>)]
    /\ pages' = {p \in pages : keep[p]}
    /\ UNCHANGED <<libVars, nruns, limit, url, opts, groups, next, progress, total, pending,
                   sources, upstream, returned, committed, overlap, keysAtDone>>

OnCancelRollback ==
    CancelEffect([p \in pages |->
                     \A r \in Runs : rpc[r] \in {"idle", "done"} \/ p.sourceUrl # url[r]])

OnCancel == CancelEffect([p \in pages |-> TRUE])

(***************************************************************************)
(* run(): the continuations of `await analyze(url)`.                       *)
(***************************************************************************)
\* The analysis fetch rejects (network failure or non-ok response): finally
\* of analyze, then the catch of run.
AnalyzeFailStarted(r) ==
    /\ rpc[r] = "analyze"
    /\ aborters' = aborters \ {<<r, 0>>}
    /\ rpc' = [rpc EXCEPT ![r] = "done"]
    /\ Post(r, <<Ev("start", 0, 0), Ev("error", 0, 1)>>)
    /\ UNCHANGED <<libVars, cancelled, nruns, limit, url, opts, groups, next, progress,
                   total, wk, pending, pages, sources, upstream, returned, committed,
                   overlap, keysAtDone>>

AnalyzeFailLeaking(r) ==
    /\ rpc[r] = "analyze"
    /\ rpc' = [rpc EXCEPT ![r] = "done"]
    /\ Post(r, <<Ev("error", 0, 1)>>)
    /\ UNCHANGED <<libVars, cancelled, aborters, nruns, limit, url, opts, groups, next,
                   progress, total, wk, pending, pages, sources, upstream, returned,
                   committed, overlap, keysAtDone>>

AnalyzeFail(r) ==
    /\ rpc[r] = "analyze"
    /\ aborters' = aborters \ {<<r, 0>>}
    /\ rpc' = [rpc EXCEPT ![r] = "done"]
    /\ Post(r, <<Ev("error", 0, 1)>>)
    /\ UNCHANGED <<libVars, cancelled, nruns, limit, url, opts, groups, next, progress, total, wk,
                   pending, pages, sources, upstream, returned, committed,
                   overlap, keysAtDone>>

\* info.type === "urlset": post start, then processUrlsetDirect up to its fetch.
AnalyzeUrlset(r) ==
    /\ rpc[r] = "analyze"
    /\ upstream[url[r]].type = "urlset"
    /\ progress' = [progress EXCEPT ![r] =
                       [totalSitemaps |-> 1, processedSitemaps |-> 0, urlsImported |-> 0]]
    /\ Post(r, <<Ev("start", 0, 0)>>)
    /\ aborters' = (aborters \ {<<r, 0>>}) \cup {<<r, 0>>}
    /\ rpc' = [rpc EXCEPT ![r] = "direct"]
    /\ UNCHANGED <<libVars, cancelled, nruns, limit, url, opts, groups, next, total, wk, pending,
                   pages, sources, upstream, returned, committed, overlap,
                   keysAtDone>>

AnalyzeIndexSilent(r) ==
    /\ rpc[r] = "analyze"
    /\ upstream[url[r]].type = "index"
    /\ LET sitemaps == upstream[url[r]].sitemaps
           gs == chunk(sitemaps, opts[r].groupSize)
           n == poolSize(opts[r].concurrency, Len(gs))
           claims == IF cancelled THEN 0 ELSE n
       IN  /\ groups' = [groups EXCEPT ![r] = gs]
           /\ progress' = [progress EXCEPT ![r] =
                              [totalSitemaps |-> Len(sitemaps), processedSitemaps |-> 0,
                               urlsImported |-> 0]]
           /\ Post(r, <<>>)
           /\ next' = [next EXCEPT ![r] = claims]
           /\ wk' = [wk EXCEPT ![r] =
                        [w \in 1 .. n |->
                            IF cancelled THEN NoWorker ELSE Worker("fetch", w, <<>>, 0)]]
           /\ aborters' = (aborters \ {<<r, 0>>}) \cup {<<r, w>> : w \in 1 .. claims}
           /\ rpc' = [rpc EXCEPT ![r] =
                         IF claims > 0 THEN "pool"
                         ELSE IF cancelled THEN "done" ELSE "count"]
    /\ UNCHANGED <<libVars, cancelled, nruns, limit, url, opts, total, pending, pages, sources,
                   upstream, returned, committed, overlap, keysAtDone>>

\* The index branch: chunk, post start, and the synchronous part of every
\* pool worker (its first claim and the start of processGroup).
AnalyzeIndex(r) ==
    /\ rpc[r] = "analyze"
    /\ upstream[url[r]].type = "index"
    /\ LET sitemaps == upstream[url[r]].sitemaps
           gs == chunk(sitemaps, opts[r].groupSize)
           n == poolSize(opts[r].concurrency, Len(gs))
           claims == IF cancelled THEN 0 ELSE n
       IN  /\ groups' = [groups EXCEPT ![r] = gs]
           /\ progress' = [progress EXCEPT ![r] =
                              [totalSitemaps |-> Len(sitemaps), processedSitemaps |-> 0,
                               urlsImported |-> 0]]
           /\ Post(r, <<Ev("start", 0, 0)>>)
           /\ next' = [next EXCEPT ![r] = claims]
           /\ wk' = [wk EXCEPT ![r] =
                        [w \in 1 .. n |->
                            IF cancelled THEN NoWorker ELSE Worker("fetch", w, <<>>, 0)]]
           /\ aborters' = (aborters \ {<<r, 0>>}) \cup {<<r, w>> : w \in 1 .. claims}
           /\ rpc' = [rpc EXCEPT ![r] =
                         IF claims > 0 THEN "pool"
                         ELSE IF cancelled THEN "done" ELSE "count"]
    /\ UNCHANGED <<libVars, cancelled, nruns, limit, url, opts, total, pending, pages, sources,
                   upstream, returned, committed, overlap, keysAtDone>>

(***************************************************************************)
(* processUrlsetDirect.                                                    *)
(***************************************************************************)
DirectFetchOk(r) ==
    /\ rpc[r] = "direct"
    /\ LET urls == directUrls(upstream[url[r]])
       IN  /\ pending' = [pending EXCEPT ![r] = toRecords(urls, url[r])]
           /\ returned' = [returned EXCEPT ![r] = @ \cup Range(urls)]
    /\ rpc' = [rpc EXCEPT ![r] = "directWrite"]
    /\ UNCHANGED <<libVars, cancelled, aborters, nruns, limit, url, opts, groups, next, progress,
                   total, wk, pages, sources, upstream, isImporting, log,
                   committed, overlap, keysAtDone>>

DirectFetchFail(r) ==
    /\ rpc[r] = "direct"
    /\ aborters' = aborters \ {<<r, 0>>}
    /\ rpc' = [rpc EXCEPT ![r] = "done"]
    /\ Post(r, <<Ev("error", 0, 0)>>)
    /\ UNCHANGED <<libVars, cancelled, nruns, limit, url, opts, groups, next, progress, total, wk,
                   pending, pages, sources, upstream, returned, committed,
                   overlap, keysAtDone>>

\* One transaction of putPagesBulk(url, records, 1000) commits.
DirectPutChunk(r) ==
    /\ rpc[r] = "directWrite"
    /\ LET k == Min(ChunkSize, Len(pending[r]))
           rest == SubSeq(pending[r], k + 1, Len(pending[r]))
       IN  /\ pages' = putChunk(pages, url[r], SubSeq(pending[r], 1, k))
           /\ pending' = [pending EXCEPT ![r] = rest]
           /\ rpc' = [rpc EXCEPT ![r] = IF rest = <<>> THEN "directCount" ELSE @]
    /\ UNCHANGED <<libVars, cancelled, aborters, nruns, limit, url, opts, groups, next, progress,
                   total, wk, sources, upstream, isImporting, log, returned,
                   committed, overlap, keysAtDone>>

DirectCount(r) ==
    /\ rpc[r] = "directCount"
    /\ total' = [total EXCEPT ![r] = countBySource(pages, url[r])]
    /\ rpc' = [rpc EXCEPT ![r] = "directUpsert"]
    /\ UNCHANGED <<libVars, cancelled, aborters, nruns, limit, url, opts, groups, next, progress,
                   wk, pending, pages, sources, upstream, isImporting, log,
                   returned, committed, overlap, keysAtDone>>

DirectUpsert(r) ==
    /\ rpc[r] = "directUpsert"
    /\ sources' = upsertSource(sources, SourceMeta(url[r], now, opts[r].ttlMs, total[r]))
    /\ Post(r, <<Ev("batch", Min(Cardinality(returned[r]), SamplePerBatch), 0),
                 Ev("complete", total[r], 0)>>)
    /\ aborters' = aborters \ {<<r, 0>>}
    /\ rpc' = [rpc EXCEPT ![r] = "done"]
    /\ keysAtDone' = [keysAtDone EXCEPT ![r] = Keys(pages)]
    /\ UNCHANGED <<libVars, cancelled, nruns, limit, url, opts, groups, next, progress, total, wk,
                   pending, pages, upstream, returned, committed, overlap>>

(***************************************************************************)
(* The worker pool of run(): processGroup and the claim loop.              *)
(***************************************************************************)
\* A pool worker rejects: Promise.all rejects with the first rejection, which
\* the catch of run turns into an error message; later ones are dropped.
RejectedEach(r, w) ==
    /\ wk' = [wk EXCEPT ![r][w] = Worker("failed", @.idx, <<>>, 0)]
    /\ aborters' = aborters \ {<<r, wk[r][w].idx>>}
    /\ rpc' = [rpc EXCEPT ![r] = "done"]
    /\ Post(r, <<Ev("error", 0, 0)>>)

Rejected(r, w) ==
    /\ wk' = [wk EXCEPT ![r][w] = Worker("failed", @.idx, <<>>, 0)]
    /\ aborters' = aborters \ {<<r, wk[r][w].idx>>}
    /\ IF rpc[r] = "pool"
       THEN /\ rpc' = [rpc EXCEPT ![r] = "done"]
            /\ Post(r, <<Ev("error", 0, 0)>>)
       ELSE UNCHANGED <<rpc, log, isImporting>>

\* POST /api/sitemap/urls answers: the children in `ok` could be fetched.
BatchFetchOk(r, w, ok) ==
    /\ w \in DOMAIN wk[r]
    /\ wk[r][w].st = "fetch"
    /\ ok \subseteq Range(groups[r][wk[r][w].idx])
    /\ Range(groups[r][wk[r][w].idx]) \ ok \subseteq Flaky
    /\ LET urls == batchUrls(groups[r][wk[r][w].idx], ok)
       IN  /\ wk' = [wk EXCEPT ![r][w] =
                        Worker("write", @.idx, toRecords(urls, url[r]), Len(urls))]
           /\ returned' = [returned EXCEPT ![r] = @ \cup Range(urls)]
    /\ UNCHANGED <<libVars, cancelled, aborters, nruns, limit, url, opts, rpc, groups, next,
                   progress, total, pending, pages, sources, upstream,
                   isImporting, log, committed, overlap, keysAtDone>>

\* The batch fetch rejects: network failure or non-ok response.
BatchFetchFail(r, w) ==
    /\ w \in DOMAIN wk[r]
    /\ wk[r][w].st = "fetch"
    /\ Rejected(r, w)
    /\ UNCHANGED <<libVars, cancelled, nruns, limit, url, opts, groups, next, progress, total,
                   pending, pages, sources, upstream, returned, committed,
                   overlap, keysAtDone>>

\* A transaction of the group's putPagesBulk aborts.
GroupWriteFail(r, w) ==
    /\ w \in DOMAIN wk[r]
    /\ wk[r][w].st = "write"
    /\ Rejected(r, w)
    /\ UNCHANGED <<libVars, cancelled, nruns, limit, url, opts, groups, next, progress, total,
                   pending, pages, sources, upstream, returned, committed,
                   overlap, keysAtDone>>

\* `const idx = next++`: the group claimed at cursor value `cursor` (groups
\* are numbered from 1 here, and `next` counts the claims made).
sameIndex(cursor) == cursor

nextIndex(cursor) == cursor + 1

\* One transaction of the group's putPagesBulk commits.  After the last one:
\* the rest of processGroup, then the worker's loop up to its next await.
GroupPutChunk(r, w) ==
    /\ w \in DOMAIN wk[r]
    /\ wk[r][w].st = "write"
    /\ LET me == wk[r][w]
           k == Min(ChunkSize, Len(me.recs))
           rest == SubSeq(me.recs, k + 1, Len(me.recs))
           idx == nextIndex(next[r])
           claim == ~cancelled /\ idx <= Len(groups[r])
           p == advance(progress[r], me.n, Len(groups[r][me.idx]))
           after == [wk[r] EXCEPT ![w] =
                        IF claim THEN Worker("fetch", idx, <<>>, 0) ELSE NoWorker]
       IN  /\ pages' = putChunk(pages, url[r], SubSeq(me.recs, 1, k))
           /\ IF rest # <<>>
              THEN /\ wk' = [wk EXCEPT ![r][w].recs = rest]
                   /\ UNCHANGED <<progress, log, isImporting, aborters, committed,
                                  next, rpc>>
              ELSE /\ progress' = [progress EXCEPT ![r] = p]
                   /\ Post(r, <<Ev("batch", Min(me.n, SamplePerBatch), 0),
                                Ev("progress", p.processedSitemaps, p.urlsImported)>>)
                   /\ committed' = [committed EXCEPT ![r] =
                                       @ \cup {me.recs[i].loc : i \in 1 .. Len(me.recs)}]
                   /\ next' = [next EXCEPT ![r] = IF cancelled THEN @ ELSE idx]
                   /\ wk' = [wk EXCEPT ![r] = after]
                   /\ aborters' = (aborters \ {<<r, me.idx>>})
                                      \cup (IF claim THEN {<<r, idx>>} ELSE {})
                   /\ rpc' = [rpc EXCEPT ![r] =
                                 IF @ = "pool" /\ \A v \in DOMAIN after : after[v].st = "exit"
                                 THEN (IF cancelled THEN "done" ELSE "count")
                                 ELSE @]
    /\ UNCHANGED <<libVars, cancelled, nruns, limit, url, opts, groups, total, pending, sources,
                   upstream, returned, overlap, keysAtDone>>

(***************************************************************************)
(* run(): the finalization of the index path.                              *)
(***************************************************************************)
FinalCountFromCounter(r) ==
    /\ rpc[r] = "count"
    /\ total' = [total EXCEPT ![r] = progress[r].urlsImported]
    /\ rpc' = [rpc EXCEPT ![r] = "upsert"]
    /\ UNCHANGED <<libVars, cancelled, aborters, nruns, limit, url, opts, groups, next,
                   progress, wk, pending, pages, sources, upstream, isImporting,
                   log, returned, committed, overlap, keysAtDone>>

FinalCount(r) ==
    /\ rpc[r] = "count"
    /\ total' = [total EXCEPT ![r] = countBySource(pages, url[r])]
    /\ rpc' = [rpc EXCEPT ![r] = "upsert"]
    /\ UNCHANGED <<libVars, cancelled, aborters, nruns, limit, url, opts, groups, next, progress,
                   wk, pending, pages, sources, upstream, isImporting, log,
                   returned, committed, overlap, keysAtDone>>

FinalUpsert(r) ==
    /\ rpc[r] = "upsert"
    /\ sources' = upsertSource(sources, SourceMeta(url[r], now, opts[r].ttlMs, total[r]))
    /\ Post(r, <<Ev("complete", total[r], 0)>>)
    /\ rpc' = [rpc EXCEPT ![r] = "done"]
    /\ keysAtDone' = [keysAtDone EXCEPT ![r] = Keys(pages)]
    /\ UNCHANGED <<libVars, cancelled, aborters, nruns, limit, url, opts, groups, next, progress,
                   total, wk, pending, pages, upstream, returned, committed,
                   overlap>>

\* A store transaction of run() or processUrlsetDirect aborts (bulk write,
\* count or SourceMeta upsert): finally, then the catch of run.
StoreFail(r) ==
    /\ rpc[r] \in {"directWrite", "directCount", "directUpsert", "count", "upsert"}
    /\ aborters' = aborters \ {<<r, 0>>}
    /\ rpc' = [rpc EXCEPT ![r] = "done"]
    /\ pending' = [pending EXCEPT ![r] = <<>>]
    /\ Post(r, <<Ev("error", 0, 0)>>)
    /\ UNCHANGED <<libVars, cancelled, nruns, limit, url, opts, groups, next, progress, total, wk,
                   pages, sources, upstream, returned, committed, overlap,
                   keysAtDone>>

(***************************************************************************)
(* The sitemap-cache library (import-worker.ts:195-262), which the page    *)
(* calls on the main thread.  A call is a record appended to `calls`; its  *)
(* pc is the await at which importAndCache or refreshIfExpired is          *)
(* suspended, ret is what the caller of the library function has seen.     *)
(***************************************************************************)
MaxCalls == 2
ChildLimit == 20
SampleSize == 200
BulkChunkSize == 2000

\* POST /api/sitemap: a urlset's entries, or those of the first 20 children
\* that could be fetched; deduped by loc and capped.
importUrls(doc, ok) ==
    IF doc.type = "urlset" THEN DedupeCap(doc.urls, UrlCap)
    ELSE DedupeCap(Merge(SubSeq(doc.sitemaps, 1, Min(ChildLimit, Len(doc.sitemaps))), ok),
                   UrlCap)

RECURSIVE Ascending(_)
Ascending(S) ==
    IF S = {} THEN <<>>
    ELSE LET m == CHOOSE x \in S : \A y \in S : x <= y
         IN  <<m>> \o Ascending(S \ {m})

\* getSampleBySource(sourceUrl, limit): the first `limit` records of the
\* source in by_source order, i.e. by primary key; given by their locs.
getSampleBySource(store, sourceUrl, lim) ==
    LET locs == Ascending({p.loc : p \in {q \in store : q.sourceUrl = sourceUrl}})
    IN  SubSeq(locs, 1, Min(lim, Len(locs)))

\* Date.now() > meta.expiresAt
ExpiredOrDue(meta, t) == t >= meta.expiresAt

Expired(meta, t) == t > meta.expiresAt

InCall(c, pc) == calls[c].pc = pc

\* A new call takes the first slot that holds no call in progress.
Free == {c \in Slots : calls[c].pc \in {"idle", "done"}}
Begin(call) ==
    /\ ncalls < MaxCalls
    /\ Free # {}
    /\ ncalls' = ncalls + 1
    /\ LET c == CHOOSE x \in Free : \A y \in Free : x <= y
       IN  calls' = [calls EXCEPT ![c] = call]

\* The clock advances, by a millisecond or by the default TTL.
Tick(d) ==
    /\ now + d <= DefaultTtl + MaxTicks
    /\ (now + d) % DefaultTtl <= MaxTicks
    /\ now' = now + d
    /\ UNCHANGED <<workerVars, search, bulk, pages, sources, calls, ncalls, marker, scans>>

\* forceRefresh(url, ttlMs): importAndCache up to its fetch.
forceRefresh(u, ttlMs) ==
    /\ Begin(Call("force", u, ttlMs, "fetch"))
    /\ UNCHANGED <<workerVars, search, bulk, pages, sources, now, marker, scans>>

\* refreshIfExpired(url, onUpdated, ttlMs) up to `await getSource(url)`.
refreshIfExpired(u, ttlMs) ==
    /\ Begin(Call("refresh", u, ttlMs, "getSource"))
    /\ UNCHANGED <<workerVars, search, bulk, pages, sources, now, marker, scans>>

\* getSource returned: the TTL test, the start of the background import if
\* it is due, and the return to the caller.
RefreshChecked(c) ==
    /\ InCall(c, "getSource")
    /\ LET u == calls[c].url
           due == u \in DOMAIN sources /\ Expired(sources[u], now)
       IN  calls' = [calls EXCEPT ![c].pc = IF due THEN "fetch" ELSE "done",
                                  ![c].due = due,
                                  ![c].ret = "returned"]
    /\ UNCHANGED <<workerVars, search, bulk, pages, sources, now, ncalls, marker, scans>>

\* fetchUrlsFromServer returned.
CacheFetched(c, ok) ==
    /\ InCall(c, "fetch")
    /\ ok \subseteq Range(upstream[calls[c].url].sitemaps)
    /\ Range(upstream[calls[c].url].sitemaps) \ ok \subseteq Flaky
    /\ calls' = [calls EXCEPT
                    ![c].recs = toRecords(importUrls(upstream[calls[c].url], ok),
                                          calls[c].url),
                    ![c].pc = "write"]
    /\ UNCHANGED <<workerVars, search, bulk, pages, sources, now, ncalls, marker, scans>>

\* One transaction of putPagesBulk(url, entries) commits.
CachePutChunk(c) ==
    /\ InCall(c, "write")
    /\ LET k == Min(BulkChunkSize, Len(calls[c].recs))
           rest == SubSeq(calls[c].recs, k + 1, Len(calls[c].recs))
       IN  /\ pages' = putChunk(pages, calls[c].url, SubSeq(calls[c].recs, 1, k))
           /\ calls' = [calls EXCEPT ![c].recs = rest,
                                     ![c].pc = IF rest = <<>> THEN "count" ELSE @]
    /\ UNCHANGED <<workerVars, search, bulk, sources, now, ncalls, marker, scans>>

CacheCount(c) ==
    /\ InCall(c, "count")
    /\ calls' = [calls EXCEPT ![c].total = countBySource(pages, calls[c].url),
                              ![c].pc = "upsert"]
    /\ UNCHANGED <<workerVars, search, bulk, pages, sources, now, ncalls, marker, scans>>

CacheUpsert(c) ==
    /\ InCall(c, "upsert")
    /\ LET meta == SourceMeta(calls[c].url, now, calls[c].ttlMs, calls[c].total)
       IN  /\ sources' = upsertSource(sources, meta)
           /\ calls' = [calls EXCEPT ![c].meta = meta, ![c].wrote = TRUE,
                                     ![c].pc = "sample"]
    /\ UNCHANGED <<workerVars, search, bulk, pages, now, ncalls, marker, scans>>

\* getSampleBySource returned: importAndCache resolves, to the caller of
\* forceRefresh or to the `then` of the background refresh.
CacheSample(c) ==
    /\ InCall(c, "sample")
    /\ LET r == [sample |-> getSampleBySource(pages, calls[c].url, SampleSize),
                 total |-> calls[c].total, meta |-> calls[c].meta]
       IN  calls' = [calls EXCEPT
                        ![c].pc = "done",
                        ![c].result = r,
                        ![c].ret = IF calls[c].kind = "force" THEN "returned" ELSE @,
                        ![c].updated = IF calls[c].kind = "refresh" THEN @ + 1 ELSE @]
    /\ UNCHANGED <<workerVars, search, bulk, pages, sources, now, ncalls, marker, scans>>

\* The await of the call rejects (the fetch, or a store transaction): a
\* forceRefresh rejects to its caller, as does refreshIfExpired while it awaits
\* getSource; the catch of the background refresh swallows the rest.
CacheFailToCaller(c) ==
    /\ calls[c].pc \in {"getSource", "fetch", "write", "count", "upsert", "sample"}
    /\ calls' = [calls EXCEPT ![c].pc = "done", ![c].failed = TRUE,
                              ![c].recs = <<>>, ![c].total = 0,
                              ![c].meta = NoMeta, ![c].ret = "threw"]
    /\ UNCHANGED <<workerVars, search, bulk, pages, sources, now, ncalls, marker, scans>>

CacheFail(c) ==
    /\ calls[c].pc \in {"getSource", "fetch", "write", "count", "upsert", "sample"}
    /\ calls' = [calls EXCEPT
                    ![c].pc = "done",
                    ![c].failed = TRUE,
                    ![c].recs = <<>>,
                    ![c].total = 0,
                    ![c].meta = NoMeta,
                    ![c].ret = IF calls[c].kind = "force" \/ calls[c].pc = "getSource"
                               THEN "threw" ELSE @]
    /\ UNCHANGED <<workerVars, search, bulk, pages, sources, now, ncalls, marker, scans>>

(***************************************************************************)
(* putPagesBulk called with records of the caller's making, which may      *)
(* carry a sourceUrl, path and path_lc of their own.                       *)
(***************************************************************************)
CallerBatches ==
    {[sourceUrl |-> 2,
      records |-> <<[loc |-> 1, sourceUrl |-> 1, path |-> <<"/", "B">>,
                     path_lc |-> <<"/", "B">>]>>],
     [sourceUrl |-> 1,
      records |-> <<[loc |-> 4], [loc |-> 2, path |-> <<>>]>>]}

putPagesBulk(sourceUrl, records) ==
    /\ pages' = putChunk(pages, sourceUrl, records)
    /\ UNCHANGED <<workerVars, sources, libVars>>

\* putPagesBulk with its loop unfolded: one step per transaction.  The call
\* starts (openDB, and the first transaction if there is a record).
MaxBulkCalls == 2
MaxRecords == 5
ChunkSizes == {1, 2, 3}
BulkRecords ==
    {[i \in 1 .. n |-> [loc |-> IF i = 4 THEN 2 ELSE i]] : n \in 0 .. MaxRecords}

BulkStart(sourceUrl, records, chunkSize) ==
    /\ bulk.pc # "tx"
    /\ ncalls < MaxBulkCalls
    /\ ncalls' = ncalls + 1
    /\ bulk' = Bulk(sourceUrl, records, chunkSize, 0,
                    IF 0 < Len(records) THEN "tx" ELSE "resolved")
    /\ UNCHANGED <<workerVars, pages, sources, now, calls, marker, scans, search>>

\* tx.oncomplete of the chunk at i: resolve, i += chunkSize, and the next
\* transaction or the return.
BulkPutAll ==
    /\ bulk.pc = "tx"
    /\ pages' = putChunk(pages, bulk.sourceUrl, bulk.records)
    /\ bulk' = [bulk EXCEPT !.i = Len(bulk.records), !.pc = "resolved"]
    /\ UNCHANGED <<workerVars, sources, now, calls, ncalls, marker, scans, search>>

BulkPutChunk ==
    /\ bulk.pc = "tx"
    /\ LET n == Len(bulk.records)
           i == bulk.i + bulk.chunkSize
       IN  /\ pages' = putChunk(pages, bulk.sourceUrl,
                                SubSeq(bulk.records, bulk.i + 1, Min(i, n)))
           /\ bulk' = [bulk EXCEPT !.i = i, !.pc = IF i < n THEN "tx" ELSE "resolved"]
    /\ UNCHANGED <<workerVars, sources, now, calls, ncalls, marker, scans, search>>

\* tx.onerror / tx.onabort of the chunk at i: the promise rejects and the
\* call throws out of its loop.
BulkAbortSkipping ==
    /\ bulk.pc = "tx"
    /\ LET i == bulk.i + bulk.chunkSize
       IN  bulk' = [bulk EXCEPT !.i = i,
                                !.pc = IF i < Len(bulk.records) THEN "tx" ELSE "rejected"]
    /\ UNCHANGED <<workerVars, pages, sources, now, calls, ncalls, marker, scans, search>>

BulkAbort ==
    /\ bulk.pc = "tx"
    /\ bulk' = [bulk EXCEPT !.pc = "rejected"]
    /\ UNCHANGED <<workerVars, pages, sources, now, calls, ncalls, marker, scans, search>>

(***************************************************************************)
(* ensureBackfillPathsOnce and backfillMissingPaths.                       *)
(***************************************************************************)
MaxScans == 2

backfillRecordMissingOnly(rec) ==
    IF rec.path = <<>>
    THEN [rec EXCEPT !.path = pathFromLoc(rec.loc),
                     !.path_lc = toLowerCase(pathFromLoc(rec.loc))]
    ELSE rec

backfillRecord(rec) ==
    LET needsPath == rec.path = <<>>
        computedPath == IF needsPath THEN pathFromLoc(rec.loc) ELSE rec.path
        needsPathLc == rec.path_lc = <<>> \/ rec.path_lc # toLowerCase(computedPath)
    IN  IF needsPath \/ needsPathLc
        THEN [rec EXCEPT !.path = computedPath, !.path_lc = toLowerCase(computedPath)]
        ELSE rec

backfillMissingPaths(store) == {backfillRecord(p) : p \in store}

\* The marker is not set: the call starts a scan and awaits it.
ensureBackfillPathsOnce ==
    /\ ~marker
    /\ scans.running + scans.committed < MaxScans
    /\ scans' = [scans EXCEPT !.running = @ + 1]
    /\ UNCHANGED <<workerVars, search, bulk, pages, sources, now, calls, ncalls, marker>>

\* The transaction of a scan commits; the call then sets the marker.
BackfillCommitted ==
    /\ scans.running > 0
    /\ pages' = backfillMissingPaths(pages)
    /\ marker' = TRUE
    /\ scans' = [scans EXCEPT !.running = @ - 1, !.committed = @ + 1]
    /\ UNCHANGED <<workerVars, search, bulk, sources, now, calls, ncalls>>

\* The transaction of a scan aborts; the call swallows the failure.
BackfillAbortedMarking ==
    /\ scans.running > 0
    /\ scans' = [scans EXCEPT !.running = @ - 1, !.aborted = TRUE]
    /\ marker' = TRUE
    /\ UNCHANGED <<workerVars, search, bulk, pages, sources, now, calls, ncalls>>

BackfillAborted ==
    /\ scans.running > 0
    /\ scans' = [scans EXCEPT !.running = @ - 1, !.aborted = TRUE]
    /\ UNCHANGED <<workerVars, search, bulk, pages, sources, now, calls, ncalls, marker>>

(***************************************************************************)
(* The searches (import-types.ts:339-407).  Strings compare as IndexedDB   *)
(* keys do, by UTF-16 code unit.                                           *)
(***************************************************************************)
VisitCap == 800
Sentinel == "uffff"

CodeUnit(c) ==
    CASE c = " " -> 32
      [] c = "-" -> 45
      [] c = "/" -> 47
      [] c = "A" -> 65
      [] c = "B" -> 66
      [] c = "P" -> 80
      [] c = "a" -> 97
      [] c = "b" -> 98
      [] c = "p" -> 112
      [] c = "z" -> 122
      [] OTHER -> 65535

RECURSIVE StrLeq(_, _)
StrLeq(x, y) ==
    IF x = <<>> THEN TRUE
    ELSE IF y = <<>> THEN FALSE
    ELSE IF CodeUnit(Head(x)) # CodeUnit(Head(y)) THEN CodeUnit(Head(x)) < CodeUnit(Head(y))
    ELSE StrLeq(Tail(x), Tail(y))

\* String.prototype.trim
RECURSIVE trim(_)
trim(str) ==
    IF str = <<>> THEN <<>>
    ELSE IF Head(str) = " " THEN trim(Tail(str))
    ELSE IF str[Len(str)] = " " THEN trim(SubSeq(str, 1, Len(str) - 1))
    ELSE str

\* replace(/\/{2,}/g, "/")
RECURSIVE collapse(_)
collapse(str) ==
    IF Len(str) < 2 THEN str
    ELSE IF str[1] = "/" /\ str[2] = "/" THEN collapse(Tail(str))
    ELSE <<Head(str)>> \o collapse(Tail(str))

normPrefix(raw) ==
    LET trimmed == trim(raw)
    IN  IF trimmed = <<>> THEN <<"/">>
        ELSE collapse(IF trimmed[1] = "/" THEN trimmed ELSE <<"/">> \o trimmed)

\* String.prototype.includes
includes(str, needle) ==
    \E i \in 0 .. (Len(str) - Len(needle)) : SubSeq(str, i + 1, i + Len(needle)) = needle

startsWith(str, pre) == Len(pre) <= Len(str) /\ SubSeq(str, 1, Len(pre)) = pre

\* The by_path_lc index: the records that have a path_lc, by path_lc and then
\* by primary key.
EntryLeq(p, q) ==
    IF p.path_lc = q.path_lc THEN p.loc <= q.loc ELSE StrLeq(p.path_lc, q.path_lc)

\* The characters in the order of their code units.
RECURSIVE Ordered(_)
Ordered(C) ==
    IF C = {} THEN <<>>
    ELSE LET m == CHOOSE c \in C : \A d \in C : CodeUnit(c) <= CodeUnit(d)
         IN  <<m>> \o Ordered(C \ {m})

Alphabet == Ordered({" ", "-", "/", "A", "B", "P", "a", "b", "p", "z"})

\* Records of one path_lc, by primary key.
RECURSIVE ByLoc(_)
ByLoc(S) ==
    IF S = {} THEN <<>>
    ELSE LET m == CHOOSE p \in S : \A q \in S : p.loc <= q.loc
         IN  <<m>> \o ByLoc(S \ {m})

\* A few records, least first.
RECURSIVE Picked(_)
Picked(S) ==
    IF S = {} THEN <<>>
    ELSE LET m == CHOOSE p \in S : \A q \in S : EntryLeq(p, q)
         IN  <<m>> \o Picked(S \ {m})

\* The records of S, which agree on the first d characters of path_lc, in
\* the order of EntryLeq: those that end there, then the others by their next
\* character.
RECURSIVE Sorted(_, _)
RECURSIVE Buckets(_, _, _)
Sorted(S, d) ==
    IF Cardinality(S) <= 8 THEN Picked(S)
    ELSE ByLoc({p \in S : Len(p.path_lc) = d}) \o Buckets(S, d, 1)

Buckets(S, d, k) ==
    IF k > Len(Alphabet)
    THEN Sorted({p \in S : Len(p.path_lc) > d /\ p.path_lc[d + 1] \notin Range(Alphabet)},
                d + 1)
    ELSE Sorted({p \in S : Len(p.path_lc) > d /\ p.path_lc[d + 1] = Alphabet[k]}, d + 1)
             \o Buckets(S, d, k + 1)

ByPathLc(store) == Sorted({p \in store : p.path_lc # <<>>}, 0)

\* The cursor loop of searchByPathPrefixLC: push, then test the length.
RECURSIVE Collect(_, _, _)
Collect(entries, out, lim) ==
    IF entries = <<>> THEN out
    ELSE LET o == Append(out, Head(entries))
         IN  IF Len(o) >= lim THEN o ELSE Collect(Tail(entries), o, lim)

searchByPathPrefixLC(store, prefix, lim) ==
    LET norm == toLowerCase(normPrefix(prefix))
        upper == norm \o <<Sentinel>>
        range == SelectSeq(ByPathLc(store),
                           LAMBDA p : StrLeq(norm, p.path_lc) /\ StrLeq(p.path_lc, upper))
    IN  Collect(range, <<>>, lim)

\* One call of req.onsuccess of searchBySubstringLC with the cursor at rec;
\* c is [out, visited, resolved].
Visit(c, rec, needle, lim, visitCap) ==
    LET plc == toLowerCase(IF rec.path_lc # <<>> THEN rec.path_lc ELSE rec.path)
        hit == includes(plc, needle)
        out == IF hit THEN Append(c.out, rec) ELSE c.out
    IN  [out |-> out, visited |-> c.visited + 1,
         resolved |-> (hit /\ Len(out) >= lim) \/ c.visited + 1 >= visitCap]

\* The cursor loop over entries[lo .. hi], until resolved (the loop is
\* unfolded by halves to keep the evaluation shallow).
RECURSIVE Cursor(_, _, _, _, _, _, _)
Cursor(c, entries, lo, hi, needle, lim, visitCap) ==
    IF c.resolved \/ lo > hi THEN c
    ELSE IF lo = hi THEN Visit(c, entries[lo], needle, lim, visitCap)
    ELSE LET mid == (lo + hi) \div 2
         IN  Cursor(Cursor(c, entries, lo, mid, needle, lim, visitCap),
                    entries, mid + 1, hi, needle, lim, visitCap)

ScanUncapped(entries, needle, lim, visitCap) ==
    Cursor([out |-> <<>>, visited |-> 0, resolved |-> FALSE],
           entries, 1, Len(entries), needle, lim, Len(entries) + 1).out

Scan(entries, needle, lim, visitCap) ==
    Cursor([out |-> <<>>, visited |-> 0, resolved |-> FALSE],
           entries, 1, Len(entries), needle, lim, visitCap).out

searchBySubstringLC(store, substr, lim, visitCap) ==
    LET needle == toLowerCase(trim(substr))
    IN  IF needle = <<>> THEN <<>>
        ELSE Scan(ByPathLc(store), needle, lim, visitCap)

\* Array.prototype.slice(0, n) for n >= 0
slice(arr, n) == SubSeq(arr, 1, Min(n, Len(arr)))

\* What the page searches for.
Queries ==
    {<<"/", "p">>, <<"p">>, <<" ", "P", "a", " ">>, <<"/", "/", "a">>, <<"b">>, <<" ">>}
Limits == {0, 1, 2, 3, 5}

\* searchByPathPrefixLC(prefix, limit), called on its own.
SearchByPrefix(raw, lim) ==
    /\ search.pc # "fallback"
    /\ search' = Search("prefix", raw, lim, "done", <<>>,
                        searchByPathPrefixLC(pages, raw, lim))
    /\ UNCHANGED <<workerVars, bulk, pages, sources, now, calls, ncalls, marker, scans>>

\* searchFuzzy(raw, limit) up to the return of its prefix stage.
SearchFuzzy(raw, lim) ==
    /\ search.pc # "fallback"
    /\ LET q == trim(raw)
           prefixResults == searchByPathPrefixLC(pages, q, lim)
       IN  search' =
               IF q = <<>> THEN Search("fuzzy", raw, lim, "done", <<>>, <<>>)
               ELSE IF Len(prefixResults) >= lim
                    THEN Search("fuzzy", raw, lim, "done", prefixResults, prefixResults)
               ELSE Search("fuzzy", raw, lim, "fallback", prefixResults, <<>>)
    /\ UNCHANGED <<workerVars, bulk, pages, sources, now, calls, ncalls, marker, scans>>

\* The substring fallback of searchFuzzy returned.
SearchFallbackDeduped ==
    /\ search.pc = "fallback"
    /\ LET fallback == searchBySubstringLC(pages, trim(search.raw),
                                           search.limit - Len(search.prefix), VisitCap)
           fresh == SelectSeq(fallback,
                              LAMBDA p : \A i \in 1 .. Len(search.prefix) :
                                             search.prefix[i].loc # p.loc)
       IN  search' = [search EXCEPT !.pc = "done",
                                    !.out = slice(search.prefix \o fresh, search.limit)]
    /\ UNCHANGED <<workerVars, bulk, pages, sources, now, calls, ncalls, marker, scans>>

SearchFallbackEvicting ==
    /\ search.pc = "fallback"
    /\ LET fallback == searchBySubstringLC(pages, trim(search.raw),
                                           search.limit - Len(search.prefix), VisitCap)
       IN  /\ search' = [search EXCEPT !.pc = "done",
                                       !.out = slice(search.prefix \o fallback,
                                                     search.limit)]
           /\ pages' = pages \ Range(fallback)
    /\ UNCHANGED <<workerVars, bulk, sources, now, calls, ncalls, marker, scans>>

SearchFallback ==
    /\ search.pc = "fallback"
    /\ LET fallback == searchBySubstringLC(pages, trim(search.raw),
                                           search.limit - Len(search.prefix), VisitCap)
       IN  search' = [search EXCEPT !.pc = "done",
                                    !.out = slice(search.prefix \o fallback, search.limit)]
    /\ UNCHANGED <<workerVars, bulk, pages, sources, now, calls, ncalls, marker, scans>>

Next ==
    \/ \E u \in Roots, o \in Options : OnStart(u, o)
    \/ OnCancel
    \/ \E r \in Runs :
        \/ AnalyzeFail(r)
        \/ AnalyzeUrlset(r)
        \/ AnalyzeIndex(r)
        \/ DirectFetchOk(r)
        \/ DirectFetchFail(r)
        \/ DirectPutChunk(r)
        \/ DirectCount(r)
        \/ DirectUpsert(r)
        \/ FinalCount(r)
        \/ FinalUpsert(r)
        \/ StoreFail(r)
        \/ \E w \in Workers :
            \/ BatchFetchFail(r, w)
            \/ GroupWriteFail(r, w)
            \/ GroupPutChunk(r, w)
            \/ \E ok \in SUBSET Children : BatchFetchOk(r, w, ok)

Spec == Init /\ [][Next]_vars

(***************************************************************************)
(* The page sends one more start message than in Spec: an import started   *)
(* again after a cancel ("You can resume by clicking Import again").       *)
(***************************************************************************)
SpecRestart == Start(MaxRuns + 1, World) /\ [][Next]_vars

(***************************************************************************)
(* Imports run one after the other, with no cancel and no store failure.   *)
(***************************************************************************)
NextSeq ==
    \/ \E u \in Roots, o \in Options : OnStart(u, o)
    \/ \E r \in Runs :
        \/ AnalyzeFail(r)
        \/ AnalyzeUrlset(r)
        \/ AnalyzeIndex(r)
        \/ DirectFetchOk(r)
        \/ DirectFetchFail(r)
        \/ DirectPutChunk(r)
        \/ DirectCount(r)
        \/ DirectUpsert(r)
        \/ FinalCount(r)
        \/ FinalUpsert(r)
        \/ \E w \in Workers :
            \/ BatchFetchFail(r, w)
            \/ GroupPutChunk(r, w)
            \/ \E ok \in SUBSET Children : BatchFetchOk(r, w, ok)

SpecTwice == Start(MaxRuns + 1, World) /\ [][NextSeq]_vars

(***************************************************************************)
(* One import of a root that is a urlset of n distinct locations, into an  *)
(* empty store: small n, and n around the cap of POST /api/sitemap.        *)
(***************************************************************************)
UrlsetSizes == (0 .. 2) \cup ((UrlCap - 1) .. MaxUrlsetLocs)

InitUrlset == \E n \in UrlsetSizes : Start(1, UrlsetWorld(n))

NextUrlset ==
    \/ \E u \in Roots, o \in Options : OnStart(u, o)
    \/ \E r \in Runs :
        \/ AnalyzeFail(r)
        \/ AnalyzeUrlset(r)
        \/ DirectFetchOk(r)
        \/ DirectFetchFail(r)
        \/ DirectPutChunk(r)
        \/ DirectCount(r)
        \/ DirectUpsert(r)
        \/ StoreFail(r)

SpecUrlset == InitUrlset /\ [][NextUrlset]_vars

(***************************************************************************)
(* The library alone: refreshes, bulk upserts by other callers and the     *)
(* backfill, with the clock running; no import worker.                     *)
(***************************************************************************)
Ticks == {1, DefaultTtl}

NextCache ==
    \/ \E d \in Ticks : Tick(d)
    \/ \E u \in Roots, ttlMs \in TtlValues :
        \/ forceRefresh(u, ttlMs)
        \/ refreshIfExpired(u, ttlMs)
    \/ \E c \in Slots :
        \/ RefreshChecked(c)
        \/ CachePutChunk(c)
        \/ CacheCount(c)
        \/ CacheUpsert(c)
        \/ CacheSample(c)
        \/ CacheFail(c)
        \/ \E ok \in SUBSET Children : CacheFetched(c, ok)

SpecCache == Start(0, World) /\ [][NextCache]_vars

(***************************************************************************)
(* Every operation that writes to the stores: one import by the worker,    *)
(* with cancel and failures, one forced refresh, bulk upserts by other     *)
(* callers and one call of the backfill, all interleaved.                  *)
(***************************************************************************)
NextStore ==
    \/ Next
    \/ \E u \in Roots : ncalls = 0 /\ forceRefresh(u, DefaultTtl)
    \/ \E c \in Slots :
        \/ CachePutChunk(c)
        \/ CacheCount(c)
        \/ CacheUpsert(c)
        \/ CacheSample(c)
        \/ \E ok \in SUBSET Children : CacheFetched(c, ok)
    \/ \E b \in CallerBatches : putPagesBulk(b.sourceUrl, b.records)
    \/ scans.running + scans.committed = 0 /\ ensureBackfillPathsOnce
    \/ BackfillCommitted
    \/ BackfillAborted

SpecStore == Start(1, World) /\ [][NextStore]_vars

(***************************************************************************)
(* The page on a store that bulk upserts fill with the pages of a site:    *)
(* the searches.                                                           *)
(***************************************************************************)
SiteBatches ==
    {[sourceUrl |-> 1, records |-> <<[loc |-> 1001], [loc |-> 1002], [loc |-> 1003]>>],
     [sourceUrl |-> 1, records |-> <<[loc |-> 1004]>>],
     [sourceUrl |-> 2, records |-> <<[loc |-> 1005], [loc |-> 1006]>>]}

NextPage ==
    \/ \E b \in SiteBatches : putPagesBulk(b.sourceUrl, b.records)
    \/ \E raw \in Queries, lim \in Limits :
        \/ SearchByPrefix(raw, lim)
        \/ SearchFuzzy(raw, lim)
    \/ SearchFallback

SpecPage == Start(0, World) /\ [][NextPage]_vars

(***************************************************************************)
(* The backfill on a store that an earlier version of the schema wrote:    *)
(* records without path or path_lc, with a path_lc that is not the         *)
(* lowercased path, and records in order.                                  *)
(***************************************************************************)
Legacy ==
    {[loc |-> 1, sourceUrl |-> 1, lastmod |-> 7, path |-> <<>>, path_lc |-> <<>>],
     [loc |-> 2, sourceUrl |-> 1, lastmod |-> 0, path |-> <<"/", "a", "B">>, path_lc |-> <<>>],
     [loc |-> 3, sourceUrl |-> 2, lastmod |-> 7,
      path |-> <<"/", "P", "a">>, path_lc |-> <<"/", "P", "a">>],
     [loc |-> 4, sourceUrl |-> 2, lastmod |-> 0, path |-> <<>>, path_lc |-> <<"/", "z">>],
     [loc |-> 5, sourceUrl |-> 1, lastmod |-> 7,
      path |-> <<"/", "A">>, path_lc |-> <<"/", "a">>],
     [loc |-> 6, sourceUrl |-> 2, lastmod |-> 0,
      path |-> <<"/", "B", "a">>, path_lc |-> <<"/", "b", "a">>]}

InitLegacy == \E store \in SUBSET Legacy : Load(0, World, store)

NextBackfill ==
    \/ ensureBackfillPathsOnce
    \/ BackfillCommitted
    \/ BackfillAborted

SpecBackfill == InitLegacy /\ [][NextBackfill]_vars

(***************************************************************************)
(* The fuzzy search on a site of more pages than the fallback visits.      *)
(***************************************************************************)
Fillers == [i \in 1 .. MaxFillers |-> [loc |-> 2000 + i]]
VisitBatches ==
    {[sourceUrl |-> 2, records |-> <<[loc |-> 1005], [loc |-> 1006]>>],
     [sourceUrl |-> 1, records |-> Fillers]}
VisitQueries == {<<"p">>, <<"z">>, <<"b">>}
VisitLimits == {1, 2, 3}

NextVisit ==
    \/ \E b \in VisitBatches : putPagesBulk(b.sourceUrl, b.records)
    \/ \E raw \in VisitQueries, lim \in VisitLimits : SearchFuzzy(raw, lim)
    \/ SearchFallback

SpecVisit == Start(0, World) /\ [][NextVisit]_vars

(***************************************************************************)
(* The partitioning of an index run: indexes of 0 .. MaxChildren children, *)
(* started with every groupSize of 1 .. MaxGroupSize, up to the pool.      *)
(***************************************************************************)
GroupSizes == 1 .. MaxGroupSize

InitChunk == \E n \in 0 .. MaxChildren : Start(1, IndexWorld(n))

NextChunk ==
    \/ \E u \in Roots, s \in GroupSizes :
        OnStart(u, [groupSize |-> s, concurrency |-> 2, ttlMs |-> DefaultTtl])
    \/ \E r \in Runs : AnalyzeIndex(r)

SpecChunk == InitChunk /\ [][NextChunk]_vars

(***************************************************************************)
(* Calls of putPagesBulk, one after the other, with small chunk sizes.     *)
(***************************************************************************)
NextBulk ==
    \/ \E u \in Roots, records \in BulkRecords, size \in ChunkSizes :
        BulkStart(u, records, size)
    \/ BulkPutChunk
    \/ BulkAbort

SpecBulk == Start(0, World) /\ [][NextBulk]_vars

(***************************************************************************)
(* An index run in which nothing fails and no cancel arrives: every call   *)
(* that was started returns (a child of the batch that cannot be fetched   *)
(* is skipped by the route, which still answers), and every worker that    *)
(* can go on does.                                                         *)
(***************************************************************************)
BatchFetched(r, w) ==
    /\ w \in DOMAIN wk[r]
    /\ wk[r][w].st = "fetch"
    /\ \E skipped \in SUBSET Flaky :
        BatchFetchOk(r, w, Range(groups[r][wk[r][w].idx]) \ skipped)

NextLive ==
    \/ \E u \in Roots, s \in GroupSizes :
        OnStart(u, [groupSize |-> s, concurrency |-> 2, ttlMs |-> DefaultTtl])
    \/ \E r \in Runs :
        \/ AnalyzeIndex(r)
        \/ FinalCount(r)
        \/ FinalUpsert(r)
        \/ \E w \in Workers :
            \/ BatchFetched(r, w)
            \/ GroupPutChunk(r, w)

FairLive ==
    \A r \in Runs :
        /\ WF_vars(AnalyzeIndex(r))
        /\ WF_vars(FinalCount(r))
        /\ WF_vars(FinalUpsert(r))
        /\ \A w \in Workers :
            /\ WF_vars(BatchFetched(r, w))
            /\ WF_vars(GroupPutChunk(r, w))

SpecLive == InitChunk /\ [][NextLive]_vars /\ FairLive

(***************************************************************************)
(* Properties.                                                             *)
(***************************************************************************)
Last(s) == s[Len(s)]
Events(r, type) == {i \in 1 .. Len(log[r]) : log[r][i].type = type}
Totals(r) == {log[r][i].a : i \in Events(r, "complete")}
Started(r) == rpc[r] # "idle"

\* C1: once a cancel has been handled while a run is in progress, that run
\* posts no complete and no error message afterwards.
C1_NoTerminalAfterCancel ==
    \A r \in Runs :
        \A i \in Events(r, "cancel") :
            \A j \in (i + 1) .. Len(log[r]) : log[r][j].type \notin {"complete", "error"}

\* C2: the page records of every group whose bulk write finished are in the
\* pages store in every state from the cancel on: nothing is rolled back.
C2_PartialCommit ==
    \A r \in Runs :
        Events(r, "cancel") # {} => \A l \in committed[r] : \E p \in pages : p.loc = l

C2_Witness ==
    \E r \in Runs :
        /\ Events(r, "cancel") # {}
        /\ committed[r] # {}
        /\ progress[r].processedSitemaps < progress[r].totalSitemaps
        /\ ~Active(r)

\* C3: a run that handled a cancel before its exact-count and SourceMeta
\* upsert step began never writes SourceMeta, on either path.
CancelledEarly(r) == \E i \in Events(r, "cancel") : log[r][i].a = 0

C3_CancelSkipsFinalization ==
    [][\A r \in Runs : CancelledEarly(r) => ~(DirectUpsert(r) \/ FinalUpsert(r))]_vars

\* C4: after a cancel has been handled, the cancelled run starts no new
\* collaborator call: no group is claimed, no batch or direct fetch is issued.
StartsCall(r) ==
    \/ rpc[r] # "direct" /\ rpc'[r] = "direct"
    \/ \E w \in DOMAIN wk'[r] :
        /\ wk'[r][w].st = "fetch"
        /\ w \notin DOMAIN wk[r] \/ wk[r][w].st # "fetch"

C4_NoCallAfterCancel ==
    [][\A r \in Runs : Events(r, "cancel") # {} => ~StartsCall(r)]_vars

\* C5: at every moment the number of groups claimed and not yet finished is
\* at most min(concurrency, groupCount).
C5_PoolBound ==
    \A r \in Runs :
        Cardinality(Busy(r)) <= Min(opts[r].concurrency, Len(groups[r]))

C5_Witness ==
    \E r \in Runs :
        /\ Cardinality(Busy(r)) = 2
        /\ Len(groups[r]) = 3
        /\ next[r] = 3

\* C6: processedSitemaps and urlsImported never decrease across the
\* successive progress messages of a run.
C6_ProgressMonotone ==
    \A r \in Runs :
        \A i \in Events(r, "progress") : \A j \in Events(r, "progress") :
            i < j => log[r][i].a <= log[r][j].a /\ log[r][i].b <= log[r][j].b

C6_Witness ==
    \E r \in Runs :
        /\ Cardinality(Events(r, "progress")) = 3
        /\ \E i \in Events(r, "progress") : \E j \in Events(r, "progress") :
            i < j /\ log[r][i].b < log[r][j].b

\* C7: at finalization `total` is the exact number of page records of the
\* run's url in the store at the count, and the SourceMeta written and the
\* complete message both carry that number.
C7_TotalIsExactCount ==
    [][\A r \in Runs :
        /\ (rpc[r] \in {"count", "directCount"} /\ rpc'[r] \in {"upsert", "directUpsert"})
            => total'[r] = Cardinality({p \in pages : p.sourceUrl = url[r]})
        /\ (rpc[r] \in {"upsert", "directUpsert"} /\ Len(log'[r]) > Len(log[r])
                /\ Last(log'[r]).type = "complete")
            => /\ url[r] \in DOMAIN sources'
               /\ sources'[url[r]].total = total[r]
               /\ Last(log'[r]).a = total[r]]_vars

C7_Witness ==
    \E r \in Runs :
        /\ Events(r, "complete") # {}
        /\ \A t \in Totals(r) : t < progress[r].urlsImported /\ t > 0

\* C8: for an index run that completes on the initially empty store, total is
\* the number of distinct locs in the union of the entries of all groups.
C8_TotalIsUnion ==
    \A r \in Runs :
        (/\ r = 1
         /\ Started(r)
         /\ ~overlap[r]
         /\ upstream[url[r]].type = "index"
         /\ Events(r, "complete") # {})
            => Totals(r) = {Cardinality(returned[r])}

C8_Witness ==
    /\ Started(1)
    /\ ~overlap[1]
    /\ upstream[url[1]].type = "index"
    /\ Totals(1) = {3}
    /\ progress[1].urlsImported = 5

\* C9 as stated: a urlset root of n distinct locations ends with n page
\* records, SourceMeta.total = n and one complete message with total n.
UrlsetDone(r, k) ==
    /\ Cardinality(pages) = k
    /\ url[r] \in DOMAIN sources
    /\ sources[url[r]].total = k
    /\ Cardinality(Events(r, "complete")) = 1
    /\ Totals(r) = {k}

C9_AllEntriesImported ==
    \A r \in Runs :
        Events(r, "complete") # {} => UrlsetDone(r, Len(upstream[url[r]].urls))

\* C9 amended: the same with min(n, 500) in place of n.
C9_EntriesUpToCap ==
    \A r \in Runs :
        Events(r, "complete") # {}
            => UrlsetDone(r, Min(Len(upstream[url[r]].urls), UrlCap))

C9_Witness ==
    \E r \in Runs :
        /\ Events(r, "complete") # {}
        /\ Len(upstream[url[r]].urls) > UrlCap
        /\ Cardinality(pages) = UrlCap

\* C10: a loc has at most one record in the pages store, and two complete
\* imports of the same source in succession that are served the same entries
\* leave the same set of keys and yield the same total.
InSuccession(r, q) ==
    /\ q = r + 1
    /\ Events(r, "complete") # {}
    /\ Events(q, "complete") # {}
    /\ url[r] = url[q]
    /\ ~overlap[r]
    /\ ~overlap[q]
    /\ returned[r] = returned[q]

Posted(r) == SelectSeq(log[r], LAMBDA e : e.type # "cancel")
AnalysisFailed(r) == \E i \in Events(r, "error") : log[r][i].b = 1

WritesStore(r) ==
    \/ DirectPutChunk(r)
    \/ DirectUpsert(r)
    \/ FinalUpsert(r)
    \/ \E w \in Workers : GroupPutChunk(r, w)

C13_AnalysisFailure ==
    [][\A r \in Runs :
        AnalysisFailed(r)'
            => /\ Len(Posted(r)') = 1
               /\ Posted(r)'[1].type = "error"
               /\ returned'[r] = {}
               /\ committed'[r] = {}
               /\ ~WritesStore(r)
               /\ ~AnalysisFailed(r) => pages' = pages /\ sources' = sources]_vars

C13_Witness ==
    \E r \in Runs : AnalysisFailed(r) /\ ~Has(r, "cancel") /\ ~isImporting

\* C14: an index run without cancel in which the batch fetch or the bulk
\* write of a group failed has posted exactly one error message and no
\* complete message, however many groups failed.
GroupsFailed(r) == {w \in DOMAIN wk[r] : wk[r][w].st = "failed"}

C14_OneErrorPerRun ==
    \A r \in Runs :
        (~Has(r, "cancel") /\ GroupsFailed(r) # {})
            => Cardinality(Events(r, "error")) = 1 /\ ~Has(r, "complete")

C14_Witness ==
    \E r \in Runs :
        /\ ~Has(r, "cancel")
        /\ Cardinality(GroupsFailed(r)) = 2
        /\ committed[r] # {}
        /\ Cardinality(Events(r, "error")) = 1

\* C15: once a run has posted its error message, it claims no further group,
\* issues no further batch fetch, writes no further page records and posts no
\* further message.
C15_ErrorStopsRun ==
    [][\A r \in Runs :
        (Has(r, "error") /\ ~Has(r, "cancel"))
            => /\ ~StartsCall(r)
               /\ log'[r] = log[r]
               /\ ~(\E w \in Workers : GroupPutChunk(r, w))]_vars

\* C16: SourceMeta is written only by an import that completes successfully:
\* the sources store changes only in the step in which a worker run that has
\* posted no error posts its complete message, or in a call of importAndCache
\* that does not fail, and the step replaces the whole record of that url.
WorkerUpsert(r) ==
    /\ DirectUpsert(r) \/ FinalUpsert(r)
    /\ ~Has(r, "error")
    /\ Last(log'[r]).type = "complete"
    /\ sources' = upsertSource(sources,
                                SourceMeta(url[r], now, opts[r].ttlMs, total[r]))

C16_MetaOnlyOnSuccess ==
    [][/\ sources' # sources
            => \/ \E r \in Runs : WorkerUpsert(r)
               \/ \E c \in Slots : CacheUpsert(c)
       /\ \A c \in Slots : calls'[c].wrote => ~calls'[c].failed]_vars

\* C17: every SourceMeta in the sources store has expiresAt > lastFetched.
C17_TtlWindow ==
    \A u \in DOMAIN sources : sources[u].expiresAt > sources[u].lastFetched

\* C18: when refreshIfExpired has read the SourceMeta it starts the re-import
\* exactly if a SourceMeta of the url exists and now is later than its
\* expiresAt; in both cases it returns to its caller in that step, with the
\* stores untouched, and a call that found nothing due stays without effect.
C18_RefreshWhenExpired ==
    [][\A c \in Slots :
        /\ (calls[c].pc = "getSource" /\ calls'[c].pc # "getSource" /\ ~calls'[c].failed)
            => /\ calls'[c].pc = "fetch"
                    <=> /\ calls[c].url \in DOMAIN sources
                        /\ now > sources[calls[c].url].expiresAt
               /\ calls'[c].pc \in {"fetch", "done"}
               /\ calls'[c].ret = "returned"
               /\ pages' = pages
               /\ sources' = sources
        /\ (calls[c].kind = "refresh" /\ calls[c].ret = "returned" /\ ~calls[c].due)
            => calls[c].pc = "done" /\ ~calls[c].wrote /\ calls[c].updated = 0]_vars

C18_Witness ==
    \E c \in Slots :
        /\ calls[c].kind = "refresh"
        /\ calls[c].due
        /\ calls[c].ret = "returned"
        /\ calls[c].pc = "write"
        /\ calls[c].recs # <<>>

\* C19: a background refresh that fails at any step leaves its caller
\* returned without error and onUpdated not invoked; one that succeeds has
\* invoked onUpdated exactly once, with the total it counted and the
\* SourceMeta it wrote.
C19_BackgroundSwallowed ==
    \A c \in Slots :
        (calls[c].kind = "refresh" /\ calls[c].due)
            => /\ calls[c].ret = "returned"
               /\ calls[c].updated <= 1
               /\ calls[c].failed => calls[c].updated = 0
               /\ (calls[c].pc = "done" /\ ~calls[c].failed)
                    => /\ calls[c].updated = 1
                       /\ calls[c].result.meta = calls[c].meta
                       /\ calls[c].result.total = calls[c].meta.total
                       /\ calls[c].wrote
               /\ calls[c].pc # "done" => calls[c].updated = 0

C19_Witness ==
    \E c \in Slots :
        /\ calls[c].kind = "refresh"
        /\ calls[c].due
        /\ calls[c].failed
        /\ calls[c].wrote
        /\ calls[c].ret = "returned"

\* C20: a forceRefresh that returned has a result whose total is that of the
\* SourceMeta it wrote, with a fresh TTL window; one that rejected to its
\* caller has not written the SourceMeta of its url.
C20_ForceRefresh ==
    \A c \in Slots :
        calls[c].kind = "force"
            => /\ calls[c].ret = "returned"
                    => /\ calls[c].wrote
                       /\ calls[c].result.total = calls[c].result.meta.total
                       /\ calls[c].result.meta.expiresAt
                            = calls[c].result.meta.lastFetched + calls[c].ttlMs
               /\ calls[c].ret = "threw" => ~calls[c].wrote

(***************************************************************************)
(* The searches and the backfill.                                          *)
(***************************************************************************)
\* The records of the by_path_lc index, in its order, that `keep` accepts.
Indexed(keep(_)) == SelectSeq(ByPathLc(pages), keep)
Norm(raw) == toLowerCase(normPrefix(raw))
Occurrences(arr, l) == Cardinality({i \in 1 .. Len(arr) : arr[i].loc = l})

\* C21: searchByPrefix(prefix, limit) returns the first `limit` records, in
\* index order, of those whose path_lc starts with the normalized lowercased
\* prefix, and never more than `limit` records.
C21_PrefixSearch ==
    [][(search' # search /\ search'.fn = "prefix")
        => LET norm == Norm(search'.raw)
               matching == Indexed(LAMBDA p : startsWith(p.path_lc, norm))
           IN  /\ search'.out = slice(matching, search'.limit)
               /\ Len(search'.out) <= search'.limit]_vars

\* C22: searchFuzzy(query, limit) returns the prefix results first, in their
\* order, then the fallback results, at most `limit` records in all, for
\* every limit including 0.
C22_FuzzyAtMostLimit ==
    (search.fn = "fuzzy" /\ search.pc = "done")
        => /\ Len(search.out) <= search.limit
           /\ slice(search.out, Len(search.prefix)) = slice(search.prefix, Len(search.out))

\* C23: when the prefix stage returned k < limit records, the result holds at
\* least min(limit - k, n) of the n records among the first 800 index
\* entries whose path contains the lowercased query and that are no prefix
\* matches.
C23_FallbackAddsOthers ==
    [][SearchFallback
        => LET needle == toLowerCase(trim(search.raw))
               norm == Norm(trim(search.raw))
               others == {p \in Range(slice(ByPathLc(pages), VisitCap)) :
                             includes(p.path_lc, needle) /\ ~startsWith(p.path_lc, norm)}
               got == {i \in 1 .. Len(search'.out) : search'.out[i] \in others}
           IN  Cardinality(got)
                   >= Min(search.limit - Len(search.prefix), Cardinality(others))]_vars

\* C24: the fallback stage collects the first limit - k records of the first
\* 800 index entries whose path contains the query, prefix matches or not, and
\* the result is the prefix results followed by them: a record in both stages
\* is in the result twice.
C24_NoDedupe ==
    [][SearchFallback
        => LET needle == toLowerCase(trim(search.raw))
               first == slice(ByPathLc(pages), VisitCap)
               fallback == slice(SelectSeq(first, LAMBDA p : includes(p.path_lc, needle)),
                                 search.limit - Len(search.prefix))
           IN  /\ search'.out = search.prefix \o fallback
               /\ \A i \in 1 .. Len(search.prefix) :
                    (\E j \in 1 .. Len(fallback) : fallback[j].loc = search.prefix[i].loc)
                        => Occurrences(search'.out, search.prefix[i].loc) = 2]_vars

C24_Witness ==
    /\ search.fn = "fuzzy"
    /\ search.pc = "done"
    /\ \E i \in 1 .. Len(search.out) : \E j \in 1 .. Len(search.out) :
        i < j /\ search.out[i] = search.out[j]

\* C25: a search, by prefix or fuzzy, at either of its stages, leaves the
\* pages store and the sources store as they were.
C25_SearchReadsOnly ==
    [][search' # search => pages' = pages /\ sources' = sources]_vars

C25_Witness ==
    /\ search.fn = "fuzzy"
    /\ search.pc = "done"
    /\ Len(search.prefix) = 1
    /\ Len(search.out) = 3
    /\ Cardinality(pages) = 6

\* C26: over any calls of ensureBackfillPathsOnce, overlapping ones included,
\* the scan of the pages store runs at most once.
C26_BackfillOnce == scans.running + scans.committed <= 1

(***************************************************************************)
(* The pool, the abort set and the partitioning.                           *)
(***************************************************************************)
Locs(recs) == {recs[i].loc : i \in 1 .. Len(recs)}
Writing(r) == {w \in DOMAIN wk[r] : wk[r][w].st = "write"}

\* C27: two groups of one run that are written concurrently never hold a
\* record of the same loc.
C27_DisjointWrites ==
    \A r \in Runs : \A v \in Writing(r) : \A w \in Writing(r) :
        v # w => Locs(wk[r][v].recs) \cap Locs(wk[r][w].recs) = {}

\* C28: the cursor of a run only increases; the groups that are being worked
\* on or that failed are distinct and were all handed out; a worker that
\* starts on a group gets one beyond all handed out before, the next in order;
\* a worker that failed stays failed.
Held(r) == {w \in DOMAIN wk[r] : wk[r][w].st \in {"fetch", "write", "failed"}}
Claimed(r) ==
    {w \in DOMAIN wk'[r] :
        /\ wk'[r][w].st = "fetch"
        /\ w \notin DOMAIN wk[r] \/ wk[r][w].st # "fetch"}

C28_CursorHandsOutOnce ==
    [][\A r \in Runs :
        /\ next'[r] >= next[r]
        /\ \A v \in Held(r)' : \A w \in Held(r)' :
            v # w => wk'[r][v].idx # wk'[r][w].idx
        /\ \A w \in Held(r)' : wk'[r][w].idx \in 1 .. next'[r]
        /\ \A w \in Claimed(r) : wk'[r][w].idx \in (next[r] + 1) .. next'[r]
        /\ \A w \in DOMAIN wk[r] :
            wk[r][w].st = "failed" => wk'[r][w] = wk[r][w]]_vars

C28_Witness ==
    \E r \in Runs :
        /\ next[r] = 3
        /\ \E v \in DOMAIN wk[r] : wk[r][v].st = "failed" /\ wk[r][v].idx = 1
        /\ \E w \in DOMAIN wk[r] : wk[r][w].st = "write" /\ wk[r][w].idx = 3

\* The collaborator calls in flight, and the calls that returned whose
\* function has not yet finished with the store.
InFlight ==
    {<<r, 0>> : r \in {q \in Runs : rpc[q] \in {"analyze", "direct"}}}
        \cup UNION {{<<r, wk[r][w].idx>> : w \in Fetching(r)} : r \in Runs}
Storing ==
    {<<r, 0>> : r \in {q \in Runs : rpc[q] \in {"directWrite", "directCount",
                                                 "directUpsert"}}}
        \cup UNION {{<<r, wk[r][w].idx>> : w \in Writing(r)} : r \in Runs}

\* C29 as stated: the abort set is the set of the calls in flight, and cancel
\* empties it and leaves none in flight.
C29_ExactlyInFlight ==
    [][/\ aborters' = InFlight'
       /\ OnCancel => aborters' = {} /\ InFlight' = {}]_vars

\* C29, amended: every call in flight is in the abort set, and a member of
\* the set is a call in flight or one whose function is still writing what it
\* returned to the store; cancel empties the set and leaves no call in flight.
C29_AbortSet ==
    [][/\ InFlight' \subseteq aborters'
       /\ aborters' \subseteq InFlight' \cup Storing'
       /\ OnCancel => aborters' = {} /\ InFlight' = {}]_vars

C29_Witness ==
    \E r \in Runs :
        /\ cancelled
        /\ aborters = {}
        /\ \E v \in DOMAIN wk[r] : wk[r][v].st = "failed"
        /\ Writing(r) # {}

\* C30: chunk partitions the n child locations into ceil(n / groupSize)
\* groups whose concatenation is the list; all but the last have groupSize
\* locations and the last has 1 .. groupSize.
RECURSIVE Concat(_)
Concat(gs) == IF gs = <<>> THEN <<>> ELSE Head(gs) \o Concat(Tail(gs))

Partitioned(r) == rpc[r] \notin {"idle", "analyze"} /\ upstream[url[r]].type = "index"

C30_Partition ==
    \A r \in Runs :
        Partitioned(r)
            => LET arr == upstream[url[r]].sitemaps
                   size == opts[r].groupSize
                   gs == groups[r]
               IN  /\ Len(gs) = (Len(arr) + size - 1) \div size
                   /\ Concat(gs) = arr
                   /\ \A k \in 1 .. Len(gs) - 1 : Len(gs[k]) = size
                   /\ gs # <<>> => Len(gs[Len(gs)]) \in 1 .. size

C30_Witness ==
    \E r \in Runs :
        /\ Partitioned(r)
        /\ Len(groups[r]) = 3
        /\ Len(groups[r][3]) < opts[r].groupSize

(***************************************************************************)
(* Progress, termination and the events of a run.                          *)
(***************************************************************************)
IsIndex(r) == Started(r) /\ upstream[url[r]].type = "index"
Finishes(r, w) ==
    /\ w \in Writing(r)
    /\ w \notin Writing(r)' \/ wk'[r][w].idx # wk[r][w].idx
    /\ wk'[r][w].st # "failed"

\* C31: in an index run a group that finishes adds its size to
\* processedSitemaps and its number of records to urlsImported and posts one
\* batch and one progress message, in this order, and nothing else changes
\* the counters; processedSitemaps is at most totalSitemaps, and it is the
\* number of children once complete is posted.
C31_ProgressAccounting ==
    [][\A r \in Runs :
        IsIndex(r) =>
            /\ \A w \in DOMAIN wk[r] :
                Finishes(r, w) =>
                    /\ progress'[r].processedSitemaps
                           = progress[r].processedSitemaps + Len(groups[r][wk[r][w].idx])
                    /\ progress'[r].urlsImported = progress[r].urlsImported + wk[r][w].n
                    /\ Len(log'[r]) = Len(log[r]) + 2
                    /\ log'[r][Len(log[r]) + 1].type = "batch"
                    /\ Last(log'[r]) = Ev("progress", progress'[r].processedSitemaps,
                                          progress'[r].urlsImported)
            /\ (rpc[r] # "analyze" /\ \A w \in DOMAIN wk[r] : ~Finishes(r, w))
                => progress'[r] = progress[r]
            /\ progress'[r].processedSitemaps <= progress'[r].totalSitemaps
            /\ Cardinality(Events(r, "batch"))' = Cardinality(Events(r, "progress"))'
            /\ Events(r, "complete")' # {}
                => progress'[r].processedSitemaps = Len(upstream[url[r]].sitemaps)]_vars

C31_Witness ==
    \E r \in Runs :
        /\ IsIndex(r)
        /\ Events(r, "complete") # {}
        /\ Cardinality(Events(r, "progress")) = 3
        /\ progress[r].processedSitemaps = 3
        /\ progress[r].urlsImported = 5

\* C32: an index run in which nothing fails and no cancel arrives eventually
\* posts complete, exactly once, and by then every group was claimed and
\* processed once and all its records are in the store; so for no children.
AllProcessed(r) ==
    /\ next[r] >= Len(groups[r])
    /\ Cardinality(Events(r, "progress")) = Len(groups[r])
    /\ progress[r].processedSitemaps = Len(upstream[url[r]].sitemaps)
    /\ committed[r] = returned[r]
    /\ \A l \in returned[r] : \E p \in pages : p.loc = l

Completed(r) == Cardinality(Events(r, "complete")) = 1 /\ AllProcessed(r)

C32_IndexRunCompletes ==
    /\ \A r \in Runs : IsIndex(r) ~> Completed(r)
    /\ \A r \in Runs : [](Events(r, "complete") # {} => Completed(r))

C32_Witness ==
    \E r \in Runs :
        /\ Completed(r)
        /\ Len(groups[r]) = 4
        /\ Len(upstream[url[r]].sitemaps) = 7

C32_WitnessEmpty ==
    \E r \in Runs : Completed(r) /\ groups[r] = <<>> /\ IsIndex(r)

\* C33: putPagesBulk writes records[i+1 .. i+chunkSize], one transaction at a
\* time for i = 0, chunkSize, 2 chunkSize, ..: a transaction that commits puts
\* exactly its chunk under the call's sourceUrl and leaves the other records
\* alone; one that aborts writes nothing and rejects the call, which keeps
\* what the chunks before it wrote and writes nothing afterwards.
LocsOf(records, lo, hi) == {records[j].loc : j \in lo .. hi}

C33_ChunkedWrites ==
    [][/\ (bulk.pc = "tx" /\ bulk' # bulk)
            => LET n == Len(bulk.records)
                   lo == bulk.i + 1
                   hi == Min(bulk.i + bulk.chunkSize, n)
                   locs == LocsOf(bulk.records, lo, hi)
               IN  \/ /\ bulk' = [bulk EXCEPT !.i = bulk.i + bulk.chunkSize,
                                              !.pc = IF hi < n THEN "tx" ELSE "resolved"]
                      /\ (hi - lo + 1) \in 1 .. bulk.chunkSize
                      /\ Keys(pages') = Keys(pages) \cup locs
                      /\ \A p \in pages' :
                            IF p.loc \in locs THEN p.sourceUrl = bulk.sourceUrl
                            ELSE p \in pages
                   \/ /\ bulk' = [bulk EXCEPT !.pc = "rejected"]
                      /\ pages' = pages
       /\ bulk.pc # "tx" => pages' = pages
       /\ LocsOf(bulk'.records, 1, Min(bulk'.i, Len(bulk'.records))) \subseteq Keys(pages')]_vars

C33_Witness ==
    /\ bulk.pc = "rejected"
    /\ bulk.i = 2
    /\ bulk.chunkSize = 2
    /\ Len(bulk.records) = 5
    /\ Keys(pages) = {1, 2}

\* C34: searchFuzzy goes on to the fallback exactly if the query is not empty
\* and the prefix stage returned fewer than `limit` records; what the fallback
\* returns are at most limit - k records that contain the query, all among
\* the first 800 entries of the index, and a match among these that it did not
\* return comes after limit - k returned ones.
Position(index, rec) == CHOOSE j \in 1 .. Len(index) : index[j] = rec

C34_FallbackBounded ==
    [][/\ (search' # search /\ search'.fn = "fuzzy" /\ search.pc # "fallback")
            => (search'.pc = "fallback"
                    <=> (trim(search'.raw) # <<>>
                            /\ Len(search'.prefix) < search'.limit))
       /\ SearchFallback
            => LET k == Len(search.prefix)
                   quota == search.limit - k
                   needle == toLowerCase(trim(search.raw))
                   index == ByPathLc(pages)
                   visited == 1 .. Min(VisitCap, Len(index))
                   fb == SubSeq(search'.out, k + 1, Len(search'.out))
               IN  /\ k < search.limit
                   /\ Len(fb) <= quota
                   /\ \A j \in 1 .. (Len(index) - 1) : EntryLeq(index[j], index[j + 1])
                   /\ \A i \in 1 .. Len(fb) :
                        /\ includes(fb[i].path_lc, needle)
                        /\ \E j \in visited : index[j] = fb[i]
                   /\ \A j \in visited :
                        (includes(index[j].path_lc, needle) /\ index[j] \notin Range(fb))
                            => /\ Len(fb) = quota
                               /\ \A i \in 1 .. Len(fb) : Position(index, fb[i]) < j]_vars

C34_Witness ==
    /\ search.fn = "fuzzy"
    /\ search.pc = "done"
    /\ Len(search.prefix) = 1
    /\ search.out = search.prefix
    /\ search.limit = 3
    /\ Cardinality(pages) > VisitCap
    /\ \E p \in pages :
        /\ p \notin Range(search.out)
        /\ includes(p.path_lc, toLowerCase(trim(search.raw)))

\* C35: a backfill pass that commits leaves every record with a path and
\* with path_lc = lowercase(path); it keeps the keys, and loc, sourceUrl and
\* lastmod of every record, leaves records that were in order as they were,
\* and a pass after a committed one changes nothing.
InOrder(p) == p.path # <<>> /\ p.path_lc # <<>> /\ p.path_lc = toLowerCase(p.path)

C35_Backfill ==
    [][scans'.committed # scans.committed
        => /\ \A q \in pages' : InOrder(q)
           /\ Cardinality(pages') = Cardinality(pages)
           /\ \A p \in pages :
                \E q \in pages' :
                    /\ q.loc = p.loc
                    /\ q.sourceUrl = p.sourceUrl
                    /\ q.lastmod = p.lastmod
                    /\ InOrder(p) => q = p
                    /\ p.path # <<>> => q.path = p.path
           /\ scans.committed > 0 => pages' = pages]_vars

C35_Witness ==
    /\ scans.committed = 2
    /\ Cardinality(pages) = 6
    /\ \E q \in pages : q.loc = 4 /\ q.path = <<"/">> \o <<"B", "a">>

\* C36: the marker is set only once a pass has committed; a pass that aborts
\* leaves the marker and the store as they were and its call returns without
\* error; and while the marker is unset a call of ensureBackfillPathsOnce
\* starts a pass.
PassAborts == scans'.running < scans.running /\ scans'.committed = scans.committed

C36_MarkerAfterCommit ==
    [][/\ marker' => scans'.committed > 0
       /\ PassAborts => marker' = marker /\ pages' = pages /\ ~scans'.rejected
       /\ ~scans'.rejected
       /\ (scans.aborted /\ ~marker /\ scans'.running > scans.running)
            => ~marker' /\ scans'.running = scans.running + 1]_vars

C36_Witness ==
    /\ scans.aborted
    /\ scans.committed = 1
    /\ scans.running = 0
    /\ marker
    /\ \E q \in pages : q.loc = 1 /\ InOrder(q)

\* C37: once a run has seen a cancel and a later start message was handled,
\* the workers of the cancelled run claim no group, the run posts no message
\* and it does not go on to its count and SourceMeta upsert.
Superseded(r) == Events(r, "cancel") # {} /\ nruns > r

C37_CancelledStaysCancelled ==
    [][\A r \in Runs :
        Superseded(r)
            => /\ Claimed(r) = {}
               /\ log'[r] = log[r]
               /\ rpc'[r] \in {"count", "upsert"} => rpc[r] \in {"count", "upsert"}]_vars

\* C38: whenever no import, refresh or backfill is in progress, the total of
\* every persisted SourceMeta equals the number of page records whose
\* sourceUrl is its url.
Quiescent ==
    /\ \A r \in Runs : ~Active(r)
    /\ Free = Slots
    /\ scans.running = 0
    /\ bulk.pc # "tx"

C38_TotalMatchesStore ==
    Quiescent => \A u \in DOMAIN sources : sources[u].total = countBySource(pages, u)

\* C39: a run whose analysis succeeded has posted exactly one start message;
\* the start message comes before every progress, batch and complete message
\* of the run, and its snapshot has processedSitemaps 0 and urlsImported 0.
Analyzed(r) == rpc[r] \notin {"idle", "analyze"} /\ ~AnalysisFailed(r)

C39_OneStartFirst ==
    \A r \in Runs :
        /\ Analyzed(r) => Cardinality(Events(r, "start")) = 1
        /\ \A i \in Events(r, "start") : log[r][i].a = 0 /\ log[r][i].b = 0
        /\ \A i \in 1 .. Len(log[r]) :
              log[r][i].type \in {"progress", "batch", "complete"}
                  => \E j \in Events(r, "start") : j < i

C39_Witness ==
    \E r \in Runs :
        /\ Analyzed(r)
        /\ Has(r, "progress") /\ Has(r, "batch") /\ Has(r, "complete")
        /\ Cardinality(Events(r, "start")) = 1

\* C40: a run posts at most one terminal message (complete or error, never
\* both and never two of either), and no progress or batch message of the
\* run comes after its complete message.
Terminal(r) == Events(r, "complete") \cup Events(r, "error")

C40_OneTerminal ==
    \A r \in Runs :
        /\ Cardinality(Terminal(r)) <= 1
        /\ \A i \in Events(r, "complete") :
              \A j \in (i + 1) .. Len(log[r]) :
                  log[r][j].type \notin {"progress", "batch"}

\* A run whose error message is followed by the batch of a worker that went
\* on writing, and a run that completed.
C40_Witness ==
    \E r \in Runs :
        /\ \E i \in Events(r, "error") :
              \E j \in Events(r, "batch") : i < j
        /\ \A w \in DOMAIN wk[r] : wk[r][w].st \notin {"fetch", "write"}
        /\ Cardinality(GroupsFailed(r)) = 2

C40_WitnessComplete ==
    \E r \in Runs :
        /\ Has(r, "complete") /\ Has(r, "progress")
        /\ log[r][Len(log[r])].type = "complete"

====
